---- MODULE Spec2Model ----
(***************************************************************************)
(* A model of the devapi request gate (tiered rate limiting, JWT           *)
(* authentication with a Redis revocation list, admin authorization) and   *)
(* of its response-format compatibility layer (formatDetector and          *)
(* responseTransformer).                                                   *)
(***************************************************************************)
EXTENDS Integers, Sequences, FiniteSets, TLC

VARIABLES
    now,     \* wall clock: [sec, late]; late = in the second half of sec
    redis,   \* revocation store: token -> "none" or the key's expiry instant
    hits,    \* express-rate-limit memory stores: limiter -> ip -> window
    db,      \* persistent state reached through prisma
    req      \* the request in flight and what the pipeline did with it

vars == <<now, redis, hits, db, req>>

-----------------------------------------------------------------------------
(* Bounds of the model.                                                    *)

\* Last second of the clock.
MaxSec == 2

\* The limiter maxima and window of the source (100, 15000 and 3000 requests
\* per 900 s) scaled down; their order AuthMax < GeneralMax < RealtimeMax is
\* the order of the source.
AuthMax == 1

GeneralMax == 2

RealtimeMax == 3

WindowSec == 2

-----------------------------------------------------------------------------
(* Time.  Date.now() has millisecond resolution while JWT expiry and the   *)
(* TTL handed to Redis are whole seconds; an instant is a second plus a    *)
(* flag telling whether it lies in the second half of that second.         *)

Instants == [sec : 0..(MaxSec + WindowSec + 1), late : BOOLEAN]

\* a is not later than b.
AtOrBefore(a, b) == a.sec < b.sec \/ (a.sec = b.sec /\ (b.late \/ ~a.late))

\* Math.floor(Date.now() / 1000)
NowSeconds(t) == t.sec

\* The instant n whole seconds after t.
After(t, n) == [sec |-> t.sec + n, late |-> t.late]

-----------------------------------------------------------------------------
(* JSON values.  A body is a function from field names to values; a field  *)
(* that is not in the domain is undefined.                                 *)

Str(s) == [t |-> "string", v |-> s]

Bool(b) == [t |-> "boolean", v |-> IF b THEN "true" ELSE "false"]

Num(n) == [t |-> "number", v |-> ToString(n)]

Null == [t |-> "null", v |-> "null"]

Undefined == [t |-> "undefined", v |-> "undefined"]

Obj(f) == [t |-> "object", o |-> f]

Arr(a) == [t |-> "array", a |-> a]

EmptyObj == [k \in {} |-> Null]

\* data.k of a JSON value: undefined when data is not an object or has no k.
Get(data, k) ==
    IF data.t = "object" /\ k \in DOMAIN data.o THEN data.o[k] ELSE Undefined

\* JavaScript truthiness.
Truthy(x) ==
    CASE x.t = "undefined" -> FALSE
      [] x.t = "null" -> FALSE
      [] x.t = "boolean" -> x.v = "true"
      [] x.t = "number" -> x.v # "0"
      [] x.t = "string" -> x.v # ""
      [] OTHER -> TRUE

\* JSON.stringify of an object drops the fields whose value is undefined.
Serialize(x) ==
    IF x.t = "object"
    THEN Obj([k \in {f \in DOMAIN x.o : x.o[f].t # "undefined"} |-> x.o[k]])
    ELSE x

-----------------------------------------------------------------------------
(* Request headers.  A header is [present, val]; an absent header reads as *)
(* undefined.  The value of User-Agent is a sequence of string pieces, the *)
(* value of Authorization is its first seven characters and the rest.      *)

Hdr(v) == [present |-> TRUE, val |-> v]

NoHdr(v) == [present |-> FALSE, val |-> v]

\* Mutant of LowerPiece: the case is left as it is.
LowerPiece_asIs(p) == p

\* String.prototype.toLowerCase on one piece of a user agent.
LowerPiece(p) ==
    CASE p = "48Hauling" -> "48hauling"
      [] p = "DevApi" -> "devapi"
      [] p = "DevDashboard" -> "devdashboard"
      [] p = "Mozilla" -> "mozilla"
      [] OTHER -> p

ToLowerCase(ua) == [i \in DOMAIN ua |-> LowerPiece(ua[i])]

\* String.prototype.includes for a needle that is one piece.
Includes(ua, needle) == \E i \in DOMAIN ua : ua[i] = needle

-----------------------------------------------------------------------------
(* formatDetector                                                          *)

getLegacyFormat ==
    [version |-> "legacy", type |-> "legacy", wrapInData |-> TRUE,
     includeSuccess |-> TRUE, fieldMappings |-> EmptyObj]

V2Format ==
    [version |-> "v2", type |-> "v2", wrapInData |-> TRUE, includeSuccess |-> TRUE]

CurrentFormat ==
    [version |-> "current", type |-> "current", wrapInData |-> FALSE,
     includeSuccess |-> FALSE]

\* Mutant of getFormatByVersion: version 1 clients get the type 'v1'.
getFormatByVersion_v1(version) ==
    CASE version \in {"v1", "1"} -> [getLegacyFormat EXCEPT !.type = "v1"]
      [] version \in {"v2", "2"} -> V2Format
      [] OTHER -> CurrentFormat

getFormatByVersion(version) ==
    CASE version \in {"v1", "1"} -> getLegacyFormat
      [] version \in {"v2", "2"} -> V2Format
      [] OTHER -> CurrentFormat

\* Mutant of formatDetector: the user agent is looked at before the version
\* header.
formatDetector_uaFirst(h) ==
    IF h.userAgent.present /\ h.userAgent.val # <<>>
       /\ (\E i \in DOMAIN h.userAgent.val :
              LowerPiece(h.userAgent.val[i]) \in {"48hauling", "devapi", "devdashboard"})
    THEN getLegacyFormat
    ELSE IF h.xApiVersion.present /\ h.xApiVersion.val # ""
    THEN getFormatByVersion(h.xApiVersion.val)
    ELSE IF h.appVersion.present /\ h.appVersion.val # ""
    THEN getLegacyFormat
    ELSE IF h.authorization.present
            /\ (h.authorization.val.prefix # "" \/ h.authorization.val.rest # "")
    THEN getLegacyFormat
    ELSE CurrentFormat

\* The descriptor formatDetector attaches to a request with headers h.
formatDetector(h) ==
    IF h.xApiVersion.present /\ h.xApiVersion.val # ""
    THEN getFormatByVersion(h.xApiVersion.val)
    ELSE IF h.appVersion.present /\ h.appVersion.val # ""
    THEN getLegacyFormat
    ELSE IF h.userAgent.present /\ h.userAgent.val # <<>>
    THEN LET ua == ToLowerCase(h.userAgent.val)
         IN  IF Includes(ua, "48hauling") \/ Includes(ua, "devapi")
             THEN getLegacyFormat
             ELSE IF Includes(ua, "devdashboard")
             THEN getLegacyFormat
             ELSE CurrentFormat
    ELSE IF h.authorization.present
            /\ (h.authorization.val.prefix # "" \/ h.authorization.val.rest # "")
    THEN getLegacyFormat
    ELSE CurrentFormat

-----------------------------------------------------------------------------
(* responseTransformer.  path is req.path as a sequence of segments.       *)

\* req.path.includes('/a/b') for the two-segment needle <<a, b>>; the second
\* segment matches as a prefix too ('/auth/me' is in '/auth/metrics').
StartsWithSeg(seg, b) ==
    seg = b \/ (b = "me" /\ seg \in {"metrics", "menu"})
             \/ (b = "login" /\ seg = "logins")

PathIncludes(path, a, b) ==
    \E i \in 1..(Len(path) - 1) : path[i] = a /\ StartsWithSeg(path[i + 1], b)

\* Mutant of ensureFormat: the error body is left as the handler wrote it.
ensureFormat_asIs(data, format) == data

ensureFormat(data, format) ==
    IF Truthy(Get(data, "error")) /\ ~Truthy(Get(data, "success"))
    THEN Obj([k \in {"success", "error", "message"} |->
              CASE k = "success" -> Bool(FALSE)
                [] k = "error" -> Get(data, "error")
                [] OTHER -> Get(data, "message")])
    ELSE data

Wrap(data) ==
    Obj([k \in {"success", "data"} |->
         IF k = "success" THEN Bool(TRUE) ELSE data])

\* Mutant of transformToLegacy: the shape check tests the fields for
\* truthiness.
transformToLegacy_truthy(data, format, path) ==
    IF Truthy(Get(data, "success")) /\ Truthy(Get(data, "data"))
    THEN data
    ELSE IF format.wrapInData
    THEN Wrap(data)
    ELSE data

\* Mutant of transformToLegacy: no rule for /auth/me.
transformToLegacy_noMe(data, format, path) ==
    IF Get(data, "success").t # "undefined" /\ Get(data, "data").t # "undefined"
    THEN data
    ELSE IF (PathIncludes(path, "auth", "login") \/ PathIncludes(path, "auth", "register"))
            /\ Truthy(Get(data, "user")) /\ Truthy(Get(data, "token"))
    THEN Wrap(Obj([k \in {"user", "token"} |-> Get(data, k)]))
    ELSE IF (PathIncludes(path, "auth", "login") \/ PathIncludes(path, "auth", "register"))
            /\ Truthy(Get(data, "data"))
            /\ Truthy(Get(Get(data, "data"), "user"))
            /\ Truthy(Get(Get(data, "data"), "token"))
    THEN Wrap(Get(data, "data"))
    ELSE IF format.wrapInData
    THEN Wrap(data)
    ELSE data

transformToLegacy(data, format, path) ==
    IF Get(data, "success").t # "undefined" /\ Get(data, "data").t # "undefined"
    THEN data
    ELSE IF (PathIncludes(path, "auth", "login") \/ PathIncludes(path, "auth", "register"))
            /\ Truthy(Get(data, "user")) /\ Truthy(Get(data, "token"))
    THEN Wrap(Obj([k \in {"user", "token"} |-> Get(data, k)]))
    ELSE IF (PathIncludes(path, "auth", "login") \/ PathIncludes(path, "auth", "register"))
            /\ Truthy(Get(data, "data"))
            /\ Truthy(Get(Get(data, "data"), "user"))
            /\ Truthy(Get(Get(data, "data"), "token"))
    THEN Wrap(Get(data, "data"))
    ELSE IF PathIncludes(path, "auth", "me") /\ Truthy(Get(data, "user"))
    THEN data
    ELSE IF format.wrapInData
    THEN Wrap(data)
    ELSE data

\* Mutant of transformToV2: the body is wrapped whatever it holds.
transformToV2_always(data, format) ==
    IF format.wrapInData THEN Wrap(data) ELSE data

transformToV2(data, format) ==
    IF format.wrapInData /\ ~Truthy(Get(data, "data")) THEN Wrap(data) ELSE data

\* Reading data.error throws a TypeError when data is null or undefined.
TransformThrows(data) == data.t \in {"null", "undefined"}

\* Mutant of transformResponse: the current type is wrapped as well.
transformResponse_wrapCurrent(data, format, path) ==
    IF Truthy(Get(data, "error"))
    THEN ensureFormat(data, format)
    ELSE CASE format.type \in {"legacy", "v1"} -> transformToLegacy(data, format, path)
           [] format.type = "v2" -> transformToV2(data, format)
           [] OTHER -> Wrap(data)

transformResponse(data, format, path) ==
    IF Truthy(Get(data, "error"))
    THEN ensureFormat(data, format)
    ELSE CASE format.type \in {"legacy", "v1"} -> transformToLegacy(data, format, path)
           [] format.type = "v2" -> transformToV2(data, format)
           [] OTHER -> data

\* The overridden res.json: the value handed to the original res.json.  A
\* request without a descriptor (hasFormat = FALSE) is passed through.
resJson(data, hasFormat, format, path) ==
    IF ~hasFormat THEN data ELSE transformResponse(data, format, path)

-----------------------------------------------------------------------------
(* Optional values: <<>> is undefined/null, <<x>> is x.                    *)

None == <<>>

Some(x) == <<x>>

-----------------------------------------------------------------------------
(* Tokens.  The token strings a client may present, with what the JWT      *)
(* codec makes of each: tGarbage does not decode, tForged decodes but is   *)
(* not signed with JWT_SECRET, the others were issued by generateToken     *)
(* (tStale earlier than the others).                                       *)

TokenStrings == {"tAdmin", "tUser", "tStale", "tForged", "tGarbage"}

Signature(token) ==
    CASE token = "tGarbage" -> "malformed"
      [] token = "tForged" -> "bad"
      [] OTHER -> "good"

\* The exp claim, in seconds.
Expiry(token) ==
    CASE token = "tStale" -> 1
      [] OTHER -> 2

\* The TokenPayload signed into the token.
Claims(token) ==
    CASE token = "tUser" -> [userId |-> "u2", email |-> "user@x", role |-> "USER"]
      [] OTHER -> [userId |-> "u1", email |-> "admin@x", role |-> "ADMIN"]

\* jwt.decode: the payload without any check, or null.
jwtDecode(token) ==
    IF token \in TokenStrings /\ Signature(token) # "malformed"
    THEN Some([exp |-> Expiry(token), payload |-> Claims(token)])
    ELSE None

\* Mutants of verifyToken: one that does not check expiry, one that does
\* not check the signature.
verifyToken_noExpiry(token, t) ==
    IF token \in TokenStrings /\ Signature(token) = "good"
    THEN Some(Claims(token))
    ELSE None

verifyToken_noSignature(token, t) ==
    IF token \in TokenStrings /\ Signature(token) # "malformed"
       /\ NowSeconds(t) < Expiry(token)
    THEN Some(Claims(token))
    ELSE None

\* jwt.verify inside verifyToken at instant t: the payload, or null when the
\* token is malformed, badly signed or expired (clock >= exp).
verifyToken(token, t) ==
    IF token \in TokenStrings /\ Signature(token) = "good"
       /\ NowSeconds(t) < Expiry(token)
    THEN Some(Claims(token))
    ELSE None

-----------------------------------------------------------------------------
(* The revocation store: Redis keys blacklist:<token> with an expiry.  A   *)
(* key whose expiry has been reached is no longer in the store; the map    *)
(* keeps its last expiry instant.                                          *)

\* A key is readable strictly before its expiry instant.
Live(entry, t) == entry # None /\ ~AtOrBefore(entry[1], t)

\* redisClient.setEx(key, ttl, 'true') executed at instant t.
setEx(store, token, ttl, t) == [store EXCEPT ![token] = Some(After(t, ttl))]

\* redisClient.get(key) !== null at instant t.
isTokenBlacklisted(store, token, t) ==
    token \in DOMAIN store /\ Live(store[token], t)

\* Mutant of blacklistToken: the TTL is one second short.
blacklistToken_shortTtl(store, token, t) ==
    LET decoded == jwtDecode(token)
    IN  IF decoded # None /\ decoded[1].exp # 0
        THEN LET ttl == decoded[1].exp - NowSeconds(t) - 1
             IN  IF ttl > 0 THEN setEx(store, token, ttl, t) ELSE store
        ELSE store

\* Mutant of blacklistToken: the record is written whatever the TTL.
blacklistToken_noGuard(store, token, t) ==
    LET decoded == jwtDecode(token)
    IN  IF decoded # None /\ decoded[1].exp # 0
        THEN setEx(store, token, decoded[1].exp - NowSeconds(t), t)
        ELSE store

\* blacklistToken at instant t: the store afterwards.
blacklistToken(store, token, t) ==
    LET decoded == jwtDecode(token)
    IN  IF decoded # None /\ decoded[1].exp # 0
        THEN LET ttl == decoded[1].exp - NowSeconds(t)
             IN  IF ttl > 0 THEN setEx(store, token, ttl, t) ELSE store
        ELSE store

-----------------------------------------------------------------------------
(* express-rate-limit, one memory store per limiter, keyed by req.ip.      *)

Limiters == {"authLimiter", "realtimeLimiter", "generalLimiter"}

Max(limiter) ==
    CASE limiter = "authLimiter" -> AuthMax
      [] limiter = "realtimeLimiter" -> RealtimeMax
      [] OTHER -> GeneralMax

LimiterMessage(limiter) ==
    CASE limiter = "authLimiter" -> "Too many login attempts, please try again later."
      [] limiter = "realtimeLimiter" -> "Rate limit exceeded. Please reduce polling frequency."
      [] OTHER -> "Too many requests, please try again later."

\* No entry for a key.  The field limited is not part of the store: it
\* records that the key has been answered 429 at some time.
NoWindow == [count |-> 0, resetTime |-> None, limited |-> FALSE]

\* Mutant of WindowAt: a window never runs out.
WindowAt_keep(w, t) == w

\* The window of a key as the store sees it at instant t: a window whose
\* resetTime has been reached is gone.
WindowAt(w, t) ==
    IF w.resetTime # None /\ AtOrBefore(w.resetTime[1], t)
    THEN [NoWindow EXCEPT !.limited = w.limited]
    ELSE w

\* Mutant of Increment: the count is written from a stale read.
Increment_stale(w, t) ==
    LET cur == WindowAt(w, t)
    IN  [cur EXCEPT !.count = 1, !.resetTime = Some(After(t, WindowSec))]

\* store.increment(key) at instant t.
Increment(w, t) ==
    LET cur == WindowAt(w, t)
    IN  IF cur.resetTime = None
        THEN [cur EXCEPT !.count = 1, !.resetTime = Some(After(t, WindowSec))]
        ELSE [cur EXCEPT !.count = cur.count + 1]

\* The limiter answers 429 when the key's count exceeds max.
OverLimit(limiter, w) == w.count > Max(limiter)

\* req.ip under 'trust proxy' 1: the last X-Forwarded-For entry when there
\* is one, the socket's peer otherwise.
ClientIp(client) ==
    IF client.xff # <<>> THEN client.xff[Len(client.xff)] ELSE client.socket

-----------------------------------------------------------------------------
(* Routing.  A path is its sequence of segments; a chain is the sequence   *)
(* of middleware a request runs through, each with the number of leading   *)
(* segments Express has stripped from req.path when it runs.  The routers  *)
(* list the routes whose handlers the model covers; the metrics router is  *)
(* left out.                                                               *)

IsPrefix(p, path) == Len(p) <= Len(path) /\ SubSeq(path, 1, Len(p)) = p

Rest(path, n) == SubSeq(path, n + 1, Len(path))

Entry(mw, strip) == [mw |-> mw, strip |-> strip]

Route(pre, handler, strip) ==
    [entries |-> [i \in 1..Len(pre) |-> Entry(pre[i], strip)]
                 \o (IF handler = "" THEN <<>> ELSE <<Entry(handler, strip)>>),
     terminal |-> handler # ""]

\* Mutant of userRoutes: the router is mounted without adminMiddleware.
userRoutes_noAdmin(method, rest, strip) ==
    LET gate == <<"authMiddleware">>
    IN  CASE method = "GET" /\ Len(rest) = 0 -> Route(gate, "getAllUsers", strip)
          [] method = "POST" /\ Len(rest) = 0 -> Route(gate, "createUser", strip)
          [] method = "DELETE" /\ Len(rest) = 1 -> Route(gate, "deleteUser", strip)
          [] OTHER -> Route(gate, "", strip)

userRoutes(method, rest, strip) ==
    LET gate == <<"authMiddleware", "adminMiddleware">>
    IN  CASE method = "GET" /\ Len(rest) = 0 -> Route(gate, "getAllUsers", strip)
          [] method = "POST" /\ Len(rest) = 0 -> Route(gate, "createUser", strip)
          [] method = "DELETE" /\ Len(rest) = 1 -> Route(gate, "deleteUser", strip)
          [] OTHER -> Route(gate, "", strip)

databaseRoutes(method, rest, strip) ==
    LET gate == <<"authMiddleware", "adminMiddleware">>
    IN  CASE method = "GET" /\ rest = <<"tables">> -> Route(gate, "getTables", strip)
          [] OTHER -> Route(gate, "", strip)

databaseManagementRoutes(method, rest, strip) ==
    LET gate == <<"authMiddleware", "adminMiddleware">>
    IN  CASE method = "POST" /\ rest = <<"create">> -> Route(gate, "createDatabase", strip)
          [] method = "DELETE" /\ Len(rest) = 1 -> Route(gate, "deleteDatabase", strip)
          [] OTHER -> Route(gate, "", strip)

heartbeatRoutes(method, rest, strip) ==
    CASE method = "POST" /\ Len(rest) = 0 ->
            Route(<<"authMiddleware">>, "heartbeat", strip)
      [] method = "GET" /\ rest = <<"status">> ->
            Route(<<"authMiddleware">>, "heartbeatStatus", strip)
      [] OTHER -> Route(<<>>, "", strip)

locationRoutes(method, rest, strip) ==
    CASE method = "POST" /\ Len(rest) = 0 ->
            Route(<<"authMiddleware">>, "updateLocation", strip)
      [] OTHER -> Route(<<>>, "", strip)

issueRoutes(method, rest, strip) ==
    CASE method = "GET" /\ Len(rest) = 0 ->
            Route(<<"authMiddleware">>, "getIssues", strip)
      [] OTHER -> Route(<<>>, "", strip)

haulingRoutes(method, rest, strip) ==
    CASE IsPrefix(<<"heartbeat">>, rest) ->
            heartbeatRoutes(method, Rest(rest, 1), strip + 1)
      [] IsPrefix(<<"location">>, rest) ->
            locationRoutes(method, Rest(rest, 1), strip + 1)
      [] IsPrefix(<<"issues">>, rest) ->
            issueRoutes(method, Rest(rest, 1), strip + 1)
      [] OTHER -> Route(<<>>, "", strip)

\* The auth router is not part of the sources at hand; its login route is
\* taken from the README.
authRoutes(method, rest, strip) ==
    CASE method = "POST" /\ rest = <<"login">> -> Route(<<>>, "login", strip)
      [] OTHER -> Route(<<>>, "", strip)

Router(name, method, rest, strip) ==
    CASE name = "authRoutes" -> authRoutes(method, rest, strip)
      [] name = "haulingRoutes" -> haulingRoutes(method, rest, strip)
      [] name = "databaseRoutes" -> databaseRoutes(method, rest, strip)
      [] name = "databaseManagementRoutes" ->
            databaseManagementRoutes(method, rest, strip)
      [] name = "userRoutes" -> userRoutes(method, rest, strip)
      [] OTHER -> Route(<<>>, "", strip)

Mount(prefix, limiter, router) ==
    [prefix |-> prefix, limiter |-> limiter, router |-> router]

\* app.use(prefix, limiter, router) in the order of the application file.
AppMounts ==
    << Mount(<<"api", "auth">>, "authLimiter", "authRoutes"),
       Mount(<<"api", "hauling", "heartbeat">>, "realtimeLimiter", ""),
       Mount(<<"api", "hauling", "location">>, "realtimeLimiter", ""),
       Mount(<<"api", "hauling">>, "generalLimiter", "haulingRoutes"),
       Mount(<<"api", "database">>, "generalLimiter", "databaseRoutes"),
       Mount(<<"api", "databases">>, "generalLimiter", "databaseManagementRoutes"),
       Mount(<<"api", "users">>, "generalLimiter", "userRoutes") >>

RECURSIVE ChainFrom(_, _, _)
ChainFrom(i, method, path) ==
    IF i > Len(AppMounts)
    THEN <<Entry("notFound", 0)>>
    ELSE LET m == AppMounts[i]
         IN  IF ~IsPrefix(m.prefix, path)
             THEN ChainFrom(i + 1, method, path)
             ELSE LET n == Len(m.prefix)
                      r == IF m.router = ""
                           THEN Route(<<>>, "", n)
                           ELSE Router(m.router, method, Rest(path, n), n)
                  IN  <<Entry(m.limiter, n)>> \o r.entries
                      \o (IF r.terminal THEN <<>> ELSE ChainFrom(i + 1, method, path))

\* The middleware a request runs through after the global middleware.
Chain(method, path) ==
    IF method = "GET" /\ path = <<"health">>
    THEN <<Entry("health", 0)>>
    ELSE ChainFrom(1, method, path)

-----------------------------------------------------------------------------
(* Handlers.  A handler run gives the persistent state afterwards, the     *)
(* status and the body handed to res.json.  fail = 0 is a run in which     *)
(* every awaited call succeeds; fail = n makes the n-th awaited call       *)
(* reject.  r is the request: r.user, r.path, r.arg (the name or id in     *)
(* the request body).                                                      *)

Fields(f) == Obj(f)

ErrorBody(msg) == Obj([k \in {"error"} |-> Str(msg)])

Reply(d, status, body) == [db |-> d, status |-> status, body |-> body]

LastSeg(path) == path[Len(path)]

UserName(databaseName) ==
    CASE databaseName = "db1" -> "db1_user"
      [] OTHER -> "other_user"

\* isValidDatabaseName, on the names the model's requests carry.
isValidDatabaseName(name) == name \notin {"", "bad-name"}

createUser(d, r, fail) ==
    IF r.arg = ""
    THEN Reply(d, 400, Obj([k \in {"error", "details"} |->
                            IF k = "error" THEN Str("Validation failed")
                            ELSE Str("issues")]))
    ELSE IF fail = 1
    THEN Reply(d, 500, ErrorBody("Failed to create user"))
    ELSE IF r.arg \in d.users
    THEN Reply(d, 400, ErrorBody("Email or username already exists"))
    ELSE IF fail = 2
    THEN Reply(d, 500, ErrorBody("Failed to create user"))
    ELSE Reply([d EXCEPT !.users = @ \cup {r.arg}], 201,
               Obj([k \in {"message", "user"} |->
                    IF k = "message" THEN Str("User created successfully")
                    ELSE Obj([j \in {"id"} |-> Str(r.arg)])]))

deleteUser(d, r, fail) ==
    LET id == LastSeg(r.path)
    IN  IF r.user # None /\ r.user[1].userId = id
        THEN Reply(d, 400, ErrorBody("Cannot delete your own account"))
        ELSE IF fail # 0 \/ id \notin d.users
        THEN Reply(d, 500, ErrorBody("Failed to delete user"))
        ELSE Reply([d EXCEPT !.users = @ \ {id}], 200,
                   Obj([k \in {"message"} |-> Str("User deleted successfully")]))

getAllUsers(d, r, fail) ==
    IF fail # 0
    THEN Reply(d, 500, ErrorBody("Failed to fetch users"))
    ELSE Reply(d, 200, Obj([k \in {"users", "pagination"} |->
                            IF k = "users" THEN Num(Cardinality(d.users))
                            ELSE Obj([j \in {"page"} |-> Num(1)])]))

\* createDatabase: the existence check, CREATE DATABASE, CREATE USER, GRANT
\* and the INSERT into database_registry are awaited calls 1..5; CREATE USER
\* also fails when the role exists.
createDatabase(d, r, fail) ==
    LET name == r.arg
        username == UserName(name)
        d2 == [d EXCEPT !.pgDatabases = @ \cup {name}]
        d3 == [d2 EXCEPT !.pgUsers = @ \cup {username}]
        d5 == [d3 EXCEPT !.registry = @ \cup {name}]
    IN  IF name = ""
        THEN Reply(d, 400, ErrorBody("Database name is required"))
        ELSE IF ~isValidDatabaseName(name)
        THEN Reply(d, 400, ErrorBody(
                 "Database name must contain only letters, numbers, and underscores"))
        ELSE IF fail = 1
        THEN Reply(d, 500, ErrorBody("query failed"))
        ELSE IF name \in d.pgDatabases
        THEN Reply(d, 409, ErrorBody("Database already exists"))
        ELSE IF fail = 2
        THEN Reply(d, 500, ErrorBody("query failed"))
        ELSE IF fail = 3 \/ username \in d2.pgUsers
        THEN Reply(d2, 500, ErrorBody("query failed"))
        ELSE IF fail \in {4, 5}
        THEN Reply(d3, 500, ErrorBody("query failed"))
        ELSE Reply(d5, 200,
                   Obj([k \in {"success", "database", "message"} |->
                        CASE k = "success" -> Bool(TRUE)
                          [] k = "database" -> Obj([j \in {"name"} |-> Str(name)])
                          [] OTHER -> Str("Database created successfully")]))

\* deleteDatabase: the registry lookup, pg_terminate_backend, DROP DATABASE,
\* DROP USER and the DELETE from database_registry are awaited calls 1..5.
deleteDatabase(d, r, fail) ==
    LET name == LastSeg(r.path)
        username == UserName(name)
        d3 == [d EXCEPT !.pgDatabases = @ \ {name}]
        d4 == [d3 EXCEPT !.pgUsers = @ \ {username}]
        d5 == [d4 EXCEPT !.registry = @ \ {name}]
    IN  IF name \in {"devauth", "postgres"}
        THEN Reply(d, 403, ErrorBody("Cannot delete system or auth database"))
        ELSE IF fail = 1
        THEN Reply(d, 500, ErrorBody("query failed"))
        ELSE IF name \notin d.registry
        THEN Reply(d, 404, ErrorBody("Database not found in registry"))
        ELSE IF fail \in {2, 3}
        THEN Reply(d, 500, ErrorBody("query failed"))
        ELSE IF fail = 4
        THEN Reply(d3, 500, ErrorBody("query failed"))
        ELSE IF fail = 5
        THEN Reply(d4, 500, ErrorBody("query failed"))
        ELSE Reply(d5, 200,
                   Obj([k \in {"success", "message"} |->
                        IF k = "success" THEN Bool(TRUE) ELSE Str("deleted")]))

\* The database controller is not part of the sources at hand; getTables
\* answers as the README documents and writes nothing.
getTables(d, r, fail) ==
    IF fail # 0
    THEN Reply(d, 500, ErrorBody("Failed to fetch tables"))
    ELSE Reply(d, 200, Obj([k \in {"success", "data"} |->
                            IF k = "success" THEN Bool(TRUE) ELSE Str("tables")]))

\* The auth controller is not part of the sources at hand; login answers
\* as the README documents.
login(d, r, fail) ==
    IF fail # 0
    THEN Reply(d, 401, ErrorBody("Invalid credentials"))
    ELSE Reply(d, 200, Obj([k \in {"user", "token"} |->
                            IF k = "user" THEN Obj([j \in {"id"} |-> Str("u1")])
                            ELSE Str("tAdmin")]))

\* POST /api/hauling/heartbeat; the hauling database it writes to is
\* outside the model's state.
heartbeat(d, r, fail) ==
    IF r.user = None \/ r.user[1].userId = ""
    THEN Reply(d, 401, ErrorBody("Unauthorized"))
    ELSE IF fail # 0
    THEN Reply(d, 500, ErrorBody("Failed to record heartbeat"))
    ELSE Reply(d, 200, Obj([k \in {"success", "message"} |->
                            IF k = "success" THEN Bool(TRUE)
                            ELSE Str("Heartbeat recorded")]))

\* POST /api/hauling/location; r.arg stands for the coordinates.
updateLocation(d, r, fail) ==
    IF r.user = None \/ r.user[1].userId = ""
    THEN Reply(d, 401, ErrorBody("Unauthorized"))
    ELSE IF r.arg = ""
    THEN Reply(d, 400, ErrorBody("Latitude and longitude are required"))
    ELSE IF fail # 0
    THEN Reply(d, 500, ErrorBody("Failed to update location"))
    ELSE Reply(d, 200, Obj([k \in {"success", "message"} |->
                            IF k = "success" THEN Bool(TRUE)
                            ELSE Str("Location updated")]))

heartbeatStatus(d, r, fail) ==
    IF r.user = None \/ r.user[1].role # "ADMIN"
    THEN Reply(d, 403, ErrorBody("Admin access required"))
    ELSE IF fail # 0
    THEN Reply(d, 500, ErrorBody("Failed to fetch device status"))
    ELSE Reply(d, 200, Obj([k \in {"success", "data"} |->
                            IF k = "success" THEN Bool(TRUE) ELSE Str("devices")]))

getIssues(d, r, fail) ==
    IF fail # 0
    THEN Reply(d, 500, Obj([k \in {"success", "error"} |->
                            IF k = "success" THEN Bool(FALSE)
                            ELSE Str("Failed to fetch issues")]))
    ELSE Reply(d, 200, Obj([k \in {"success", "data"} |->
                            IF k = "success" THEN Bool(TRUE) ELSE Str("issues")]))

health(d) ==
    Reply(d, 200, Obj([k \in {"status", "message"} |->
                       IF k = "status" THEN Str("ok") ELSE Str("DevApi is running!")]))

notFound(d) == Reply(d, 404, ErrorBody("Route not found"))

Handlers ==
    {"createUser", "deleteUser", "getAllUsers", "createDatabase", "deleteDatabase",
     "getTables", "login", "heartbeat", "updateLocation", "heartbeatStatus",
     "getIssues", "health", "notFound"}

\* The number of awaited calls of a handler that can reject.
Awaits(h) ==
    CASE h \in {"createDatabase", "deleteDatabase"} -> 5
      [] h = "createUser" -> 2
      [] h \in {"health", "notFound"} -> 0
      [] OTHER -> 1

RunHandler(h, d, r, fail) ==
    CASE h = "createUser" -> createUser(d, r, fail)
      [] h = "deleteUser" -> deleteUser(d, r, fail)
      [] h = "getAllUsers" -> getAllUsers(d, r, fail)
      [] h = "createDatabase" -> createDatabase(d, r, fail)
      [] h = "deleteDatabase" -> deleteDatabase(d, r, fail)
      [] h = "getTables" -> getTables(d, r, fail)
      [] h = "login" -> login(d, r, fail)
      [] h = "heartbeat" -> heartbeat(d, r, fail)
      [] h = "updateLocation" -> updateLocation(d, r, fail)
      [] h = "heartbeatStatus" -> heartbeatStatus(d, r, fail)
      [] h = "getIssues" -> getIssues(d, r, fail)
      [] h = "health" -> health(d)
      [] OTHER -> notFound(d)

-----------------------------------------------------------------------------
(* The request in flight.  Besides the fields of the Express request and   *)
(* response it records what the pipeline did: by (the middleware that      *)
(* answered), counted (for each limiter that counted it, the key's count   *)
(* after the increment, else 0), lookupAt and                              *)
(* entryAtLookup (when authMiddleware read the store and the key's entry   *)
(* then), resumeAt (when authMiddleware resumed), passed (the middleware   *)
(* that called next), roleChecked, handled (the handler that ran),         *)
(* emitted (the value passed to res.json), out (the values the override    *)
(* handed to the original res.json), threw (the override threw), verified *)
(* (authMiddleware called verifyToken).                                    *)

NoAuthorization == NoHdr([prefix |-> "", rest |-> ""])

Bearer(token) == Hdr([prefix |-> "Bearer ", rest |-> token])

Headers(ver, app, ua, auth) ==
    [xApiVersion |-> ver, appVersion |-> app, userAgent |-> ua, authorization |-> auth]

IdleReq ==
    [pc |-> "idle", idx |-> 0, method |-> "", path |-> <<>>, arg |-> "",
     headers |-> Headers(NoHdr(""), NoHdr(""), NoHdr(<<>>), NoAuthorization),
     client |-> [socket |-> "", xff |-> <<>>],
     hasFormat |-> FALSE, clientFormat |-> CurrentFormat,
     user |-> None, lookup |-> "none", status |-> 0, body |-> Undefined,
     by |-> "", counted |-> [l \in Limiters |-> 0], lookupAt |-> None, entryAtLookup |-> None,
     resumeAt |-> None, passed |-> {}, roleChecked |-> FALSE, handled |-> "",
     emitted |-> Undefined, out |-> <<>>, threw |-> FALSE, verified |-> FALSE]

\* next() called by middleware mw.
Next_(r, mw) == [r EXCEPT !.idx = r.idx + 1, !.passed = @ \cup {mw}]

\* The formatDetector middleware: it attaches the descriptor and calls next.
attachFormat(r) ==
    Next_([r EXCEPT !.hasFormat = TRUE, !.clientFormat = formatDetector(r.headers)],
          "formatDetector")

\* The request as it leaves the global middleware: formatDetector has
\* attached the descriptor and responseTransformer has wrapped res.json.
NewReq(q, h, c) ==
    attachFormat([IdleReq EXCEPT !.pc = "run", !.method = q.method, !.path = q.path,
                                 !.arg = q.arg, !.headers = h, !.client = c])

CurrentEntry(r) == Chain(r.method, r.path)[r.idx]

\* req.path while the middleware of entry e runs.
ReqPath(r, e) == Rest(r.path, e.strip)

\* res.status(status).json(data) called by the middleware of entry e.
Send(r, e, status, data) ==
    [r EXCEPT !.pc = "done", !.status = status, !.by = e.mw, !.emitted = data,
              !.out = <<resJson(data, r.hasFormat, r.clientFormat, ReqPath(r, e))>>,
              !.body = Serialize(resJson(data, r.hasFormat, r.clientFormat,
                                         ReqPath(r, e)))]

LimiterBody(limiter) ==
    Obj([k \in {"success", "error"} |->
         IF k = "success" THEN Bool(FALSE) ELSE Str(LimiterMessage(limiter))])

\* Mutant of rateLimit: the rejected request is forwarded all the same.
rateLimit_noStop(r, e, w) ==
    LET r1 == [r EXCEPT !.counted[e.mw] = w.count]
    IN  IF OverLimit(e.mw, w)
        THEN [Next_(r1, e.mw) EXCEPT !.status = 429, !.by = e.mw]
        ELSE Next_(r1, e.mw)

\* The limiter middleware of entry e on request r, given the key's window
\* after the increment.
rateLimit(r, e, w) ==
    LET r1 == [r EXCEPT !.counted[e.mw] = w.count]
    IN  IF OverLimit(e.mw, w)
        THEN Send(r1, e, 429, LimiterBody(e.mw))
        ELSE Next_(r1, e.mw)

\* authMiddleware up to its await: the header check and the lookup issued.
\* found is what the lookup returns, or "throw" when it rejects.
authMiddlewareLookup(r, e, found, store, t) ==
    LET authHeader == r.headers.authorization
    IN  IF ~authHeader.present \/ authHeader.val.prefix # "Bearer "
        THEN Send(r, e, 401, ErrorBody("No token provided"))
        ELSE [r EXCEPT !.pc = "auth", !.lookup = found, !.lookupAt = Some(t),
                       !.entryAtLookup = store[authHeader.val.rest]]

\* Mutant of authMiddlewareVerify: the token is verified before the result
\* of the lookup is looked at.
authMiddlewareVerify_verifyFirst(r0, e, t) ==
    LET r == [r0 EXCEPT !.resumeAt = Some(t)]
        token == r.headers.authorization.val.rest
        decoded == verifyToken(token, t)
        v == [r EXCEPT !.verified = TRUE]
    IN  IF r.lookup = "throw"
        THEN Send(r, e, 401, ErrorBody("Authentication failed"))
        ELSE IF decoded = None
        THEN Send(v, e, 401, ErrorBody("Invalid or expired token"))
        ELSE IF r.lookup = "yes"
        THEN Send(v, e, 401, ErrorBody("Token has been revoked"))
        ELSE [Next_(v, e.mw) EXCEPT !.pc = "run", !.user = decoded]

\* Mutant of authMiddlewareVerify: a failed lookup counts as 'no record'.
authMiddlewareVerify_failOpen(r0, e, t) ==
    LET r == [r0 EXCEPT !.resumeAt = Some(t)]
        token == r.headers.authorization.val.rest
        decoded == verifyToken(token, t)
        v == [r EXCEPT !.verified = TRUE]
    IN  IF r.lookup = "yes"
        THEN Send(r, e, 401, ErrorBody("Token has been revoked"))
        ELSE IF decoded = None
        THEN Send(v, e, 401, ErrorBody("Invalid or expired token"))
        ELSE [Next_(v, e.mw) EXCEPT !.pc = "run", !.user = decoded]

\* authMiddleware after its await.
authMiddlewareVerify(r0, e, t) ==
    LET r == [r0 EXCEPT !.resumeAt = Some(t)]
        token == r.headers.authorization.val.rest
        decoded == verifyToken(token, t)
        v == [r EXCEPT !.verified = TRUE]
    IN  IF r.lookup = "throw"
        THEN Send(r, e, 401, ErrorBody("Authentication failed"))
        ELSE IF r.lookup = "yes"
        THEN Send(r, e, 401, ErrorBody("Token has been revoked"))
        ELSE IF decoded = None
        THEN Send(v, e, 401, ErrorBody("Invalid or expired token"))
        ELSE [Next_(v, e.mw) EXCEPT !.pc = "run", !.user = decoded]

\* Mutant of adminMiddleware: no check that a claim is attached.
adminMiddleware_noUserCheck(r, e) ==
    LET r1 == [r EXCEPT !.roleChecked = TRUE]
    IN  IF r.user = None \/ r.user[1].role # "ADMIN"
        THEN Send(r1, e, 403, ErrorBody("Admin access required"))
        ELSE Next_(r1, e.mw)

adminMiddleware(r, e) ==
    LET r1 == [r EXCEPT !.roleChecked = TRUE]
    IN  IF r.user = None
        THEN Send(r1, e, 401, ErrorBody("Not authenticated"))
        ELSE IF r.user[1].role # "ADMIN"
        THEN Send(r1, e, 403, ErrorBody("Admin access required"))
        ELSE Next_(r1, e.mw)

-----------------------------------------------------------------------------
(* Inputs.                                                                 *)

Req(method, path, arg) == [method |-> method, path |-> path, arg |-> arg]

AdminRequests ==
    { Req("POST", <<"api", "users">>, "u3"),
      Req("DELETE", <<"api", "users", "u3">>, ""),
      Req("GET", <<"api", "database", "tables">>, ""),
      Req("POST", <<"api", "databases", "create">>, "db1"),
      Req("DELETE", <<"api", "databases", "db1">>, "") }

ProxiedClient(ip) == [socket |-> "proxy", xff |-> <<ip>>]

IPs == {"ipA", "ipB"}

-----------------------------------------------------------------------------
(* Actions.                                                                *)

InitialDb ==
    [users |-> {"u1", "u2"}, pgDatabases |-> {}, pgUsers |-> {}, registry |-> {}]

Init ==
    /\ now = [sec |-> 0, late |-> FALSE]
    /\ redis = [token \in TokenStrings \cup {""} |-> None]
    /\ hits = [l \in Limiters |-> [ip \in IPs |-> NoWindow]]
    /\ db = InitialDb
    /\ req = IdleReq

\* A client keeps sending to a route until a limiter on it has counted one
\* request past its maximum in the current window.
StillSending(q, c) ==
    \A i \in DOMAIN Chain(q.method, q.path) :
        LET mw == Chain(q.method, q.path)[i].mw
        IN  mw \in Limiters =>
                WindowAt(hits[mw][ClientIp(c)], now).count <= Max(mw)

\* A request arrives and passes the global middleware.
Arrive(q, h, c) ==
    /\ req.pc \in {"idle", "done"}
    /\ StillSending(q, c)
    /\ req' = NewReq(q, h, c)
    /\ UNCHANGED <<now, redis, hits, db>>

\* A rate limiter counts the request and forwards or rejects it.
RateLimit ==
    /\ req.pc = "run"
    /\ CurrentEntry(req).mw \in Limiters
    /\ LET e == CurrentEntry(req)
           ip == ClientIp(req.client)
           w == Increment(hits[e.mw][ip], now)
       IN  /\ hits' = [hits EXCEPT ![e.mw][ip] =
                                  [w EXCEPT !.limited = @ \/ OverLimit(e.mw, w)]]
           /\ req' = rateLimit(req, e, w)
    /\ UNCHANGED <<now, redis, db>>

\* authMiddleware checks the header and looks the token up in Redis.
AuthLookup ==
    /\ req.pc = "run"
    /\ CurrentEntry(req).mw = "authMiddleware"
    /\ \E threw \in BOOLEAN :
          LET token == req.headers.authorization.val.rest
              found == IF threw THEN "throw"
                       ELSE IF isTokenBlacklisted(redis, token, now) THEN "yes"
                       ELSE "no"
          IN  req' = authMiddlewareLookup(req, CurrentEntry(req), found, redis, now)
    /\ UNCHANGED <<now, redis, hits, db>>

\* authMiddleware resumes when the lookup has settled.
AuthVerify ==
    /\ req.pc = "auth"
    /\ req' = authMiddlewareVerify(req, CurrentEntry(req), now)
    /\ UNCHANGED <<now, redis, hits, db>>

Admin ==
    /\ req.pc = "run"
    /\ CurrentEntry(req).mw = "adminMiddleware"
    /\ req' = adminMiddleware(req, CurrentEntry(req))
    /\ UNCHANGED <<now, redis, hits, db>>

\* The route handler runs to its response.
Handle ==
    /\ req.pc = "run"
    /\ CurrentEntry(req).mw \in Handlers
    /\ LET e == CurrentEntry(req)
       IN  \E fail \in 0..Awaits(e.mw) :
              LET out == RunHandler(e.mw, db, req, fail)
              IN  /\ db' = out.db
                  /\ req' = Send([req EXCEPT !.handled = e.mw], e, out.status, out.body)
    /\ UNCHANGED <<now, redis, hits>>

\* blacklistToken(token), called on logout; the write may be rejected.
BlacklistToken(token) ==
    /\ \E threw \in BOOLEAN :
          redis' = IF threw THEN redis ELSE blacklistToken(redis, token, now)
    /\ UNCHANGED <<now, hits, db, req>>

LastInstant == [sec |-> MaxSec, late |-> TRUE]

\* Time passes: half a second.
Tick ==
    /\ now # LastInstant
    /\ now' = IF now.late THEN [sec |-> now.sec + 1, late |-> FALSE]
              ELSE [now EXCEPT !.late = TRUE]
    /\ hits' = [l \in Limiters |-> [ip \in IPs |-> WindowAt(hits[l][ip], now')]]
    /\ UNCHANGED <<redis, db, req>>

-----------------------------------------------------------------------------
(* Spec: authentication over time.  One client sends requests to the       *)
(* authenticated issue list while tokens are revoked and the clock runs.   *)

AuthRequests == {Req("GET", <<"api", "hauling", "issues">>, "")}

AuthTokens == {"tAdmin", "tStale", "tForged", "tGarbage"}

AuthHeaders ==
    {Headers(NoHdr(""), NoHdr(""), NoHdr(<<>>), auth) :
        auth \in {NoAuthorization, Hdr([prefix |-> "Basic x", rest |-> "tAdmin"])}
                 \cup {Bearer(token) : token \in AuthTokens}}

Next ==
    \/ \E q \in AuthRequests, h \in AuthHeaders : Arrive(q, h, ProxiedClient("ipA"))
    \/ RateLimit
    \/ AuthLookup
    \/ AuthVerify
    \/ Handle
    \/ \E token \in AuthTokens : BlacklistToken(token)
    \/ Tick

Spec == Init /\ [][Next]_vars

-----------------------------------------------------------------------------
(* SpecGate: the admin routes.  One client sends requests to the user,     *)
(* database and database-management routes under every descriptor; the     *)
(* server is up since second 1, when tStale has expired.                   *)

VersionHeaders == {NoHdr(""), Hdr("v2"), Hdr("v3")}

GateTokens == {"tAdmin", "tUser", "tStale", "tForged"}

GateHeaders ==
    {Headers(ver, NoHdr(""), NoHdr(<<>>), auth) :
        ver \in VersionHeaders,
        auth \in {NoAuthorization} \cup {Bearer(token) : token \in GateTokens}}

InitGate ==
    /\ now = [sec |-> 1, late |-> FALSE]
    /\ redis = [token \in TokenStrings \cup {""} |-> None]
    /\ hits = [l \in Limiters |-> [ip \in IPs |-> NoWindow]]
    /\ db = InitialDb
    /\ req = IdleReq

NextGate ==
    \/ \E q \in AdminRequests, h \in GateHeaders : Arrive(q, h, ProxiedClient("ipA"))
    \/ RateLimit
    \/ AuthLookup
    \/ AuthVerify
    \/ Admin
    \/ Handle
    \/ BlacklistToken("tAdmin")

SpecGate == InitGate /\ [][NextGate]_vars

-----------------------------------------------------------------------------
(* SpecUnit: formatDetector and adminMiddleware called on their own, on    *)
(* requests with every combination of headers and of attached claims.      *)

UnitVersions == {NoHdr(""), Hdr(""), Hdr("v1"), Hdr("1"), Hdr("v2"), Hdr("2"), Hdr("v3")}

UnitAppVersions == {NoHdr(""), Hdr(""), Hdr("2.1.0")}

UnitUserAgents ==
    {NoHdr(<<>>), Hdr(<<>>), Hdr(<<"48Hauling", "/1.0">>), Hdr(<<"DevApi">>),
     Hdr(<<"DevDashboard">>), Hdr(<<"Mozilla">>)}

UnitAuthorizations ==
    {NoAuthorization, Bearer("tAdmin"), Hdr([prefix |-> "Basic x", rest |-> "tAdmin"])}

UnitHeaders ==
    {Headers(ver, app, ua, auth) :
        ver \in UnitVersions, app \in UnitAppVersions,
        ua \in UnitUserAgents, auth \in UnitAuthorizations}

UnitUsers ==
    {None, Some(Claims("tAdmin")), Some(Claims("tUser")),
     Some([userId |-> "u9", email |-> "x@x", role |-> "admin"])}

InitUnit ==
    /\ now = [sec |-> 0, late |-> FALSE]
    /\ redis = [token \in TokenStrings \cup {""} |-> None]
    /\ hits = [l \in Limiters |-> [ip \in IPs |-> NoWindow]]
    /\ db = InitialDb
    /\ \E h \in UnitHeaders, u \in UnitUsers :
          req = [IdleReq EXCEPT !.pc = "unit", !.method = "GET",
                                !.path = <<"api", "users">>,
                                !.headers = h, !.user = u]

CallFormatDetector ==
    /\ req.pc = "unit"
    /\ "formatDetector" \notin req.passed
    /\ req' = attachFormat(req)
    /\ UNCHANGED <<now, redis, hits, db>>

CallAdminMiddleware ==
    /\ req.pc = "unit"
    /\ ~req.roleChecked
    /\ req' = adminMiddleware(req, Entry("adminMiddleware", 2))
    /\ UNCHANGED <<now, redis, hits, db>>

NextUnit == CallFormatDetector \/ CallAdminMiddleware

SpecUnit == InitUnit /\ [][NextUnit]_vars

-----------------------------------------------------------------------------
(* SpecRate: the quotas.  Two clients send requests of the three quota     *)
(* classes with a valid token within one window.                           *)

RateRequests ==
    {Req("POST", <<"api", "hauling", "heartbeat">>, ""),
     Req("POST", <<"api", "hauling", "location">>, ""),
     Req("GET", <<"api", "hauling", "issues">>, ""),
     Req("POST", <<"api", "auth", "login">>, "")}

RateHeaders == {Headers(NoHdr(""), NoHdr(""), NoHdr(<<>>), Bearer("tAdmin"))}

NextRate ==
    \/ \E q \in RateRequests, h \in RateHeaders, ip \in IPs : Arrive(q, h, ProxiedClient(ip))
    \/ RateLimit
    \/ AuthLookup
    \/ AuthVerify
    \/ Handle

SpecRate == Init /\ [][NextRate]_vars

-----------------------------------------------------------------------------
(* SpecLimit: requests in flight together.  Each limiter awaits            *)
(* store.increment(key), which runs in one turn of the event loop, and     *)
(* decides when the await resumes, on the total the call returned; other   *)
(* requests run in between.  req.inflight holds the requests in flight,    *)
(* req.forwarded and req.rejected count, per limiter and sender, the       *)
(* requests the limiter has passed on and has answered 429.                *)

Slots == {"s1", "s2"}

LimitRequests ==
    {Req("POST", <<"api", "auth", "login">>, ""),
     Req("POST", <<"api", "hauling", "heartbeat">>, "")}

\* The address the proxy saw the request come from.
SenderOf(r) == r.client.xff[1]

InitLimit ==
    /\ now = [sec |-> 0, late |-> FALSE]
    /\ redis = [token \in TokenStrings \cup {""} |-> None]
    /\ hits = [l \in Limiters |-> [ip \in IPs |-> NoWindow]]
    /\ db = InitialDb
    /\ req = [pc |-> "many",
              inflight |-> [s \in Slots |-> IdleReq],
              forwarded |-> [l \in Limiters |-> [ip \in IPs |-> 0]],
              rejected |-> [l \in Limiters |-> [ip \in IPs |-> 0]]]

\* A request arrives while others are in flight.
ArriveAmong(s, q, ip) ==
    /\ req.inflight[s].pc \in {"idle", "done"}
    /\ StillSending(q, ProxiedClient(ip))
    /\ req' = [req EXCEPT !.inflight[s] =
                  NewReq(q, Headers(NoHdr(""), NoHdr(""), NoHdr(<<>>), Bearer("tAdmin")),
                         ProxiedClient(ip))]
    /\ UNCHANGED <<now, redis, hits, db>>

\* The limiter calls store.increment(key) and awaits the total.
LimitCount(s) ==
    LET r == req.inflight[s]
    IN  /\ r.pc = "run"
        /\ CurrentEntry(r).mw \in Limiters
        /\ LET l == CurrentEntry(r).mw
               ip == ClientIp(r.client)
               w == Increment(hits[l][ip], now)
           IN  /\ hits' = [hits EXCEPT ![l][ip] =
                              [w EXCEPT !.limited = @ \/ OverLimit(l, w)]]
               /\ req' = [req EXCEPT !.inflight[s] =
                             [r EXCEPT !.pc = "counted", !.counted[l] = w.count]]
        /\ UNCHANGED <<now, redis, db>>

\* The limiter resumes with the total its own call returned.
LimitDecide(s) ==
    LET r == req.inflight[s]
    IN  /\ r.pc = "counted"
        /\ LET e == CurrentEntry(r)
               w == [NoWindow EXCEPT !.count = r.counted[e.mw]]
               r2 == rateLimit([r EXCEPT !.pc = "run"], e, w)
               ip == SenderOf(r)
           IN  req' = [req EXCEPT
                         !.inflight[s] = r2,
                         !.forwarded[e.mw][ip] = IF r2.pc = "run" THEN @ + 1 ELSE @,
                         !.rejected[e.mw][ip] = IF r2.pc = "run" THEN @ ELSE @ + 1]
        /\ UNCHANGED <<now, redis, hits, db>>

\* The request has passed its limiters and goes on to the route's own
\* middleware, which is not followed here.
PassedLimiters(s) ==
    LET r == req.inflight[s]
    IN  /\ r.pc = "run"
        /\ CurrentEntry(r).mw \notin Limiters
        /\ req' = [req EXCEPT !.inflight[s] = IdleReq]
        /\ UNCHANGED <<now, redis, hits, db>>

NextLimit ==
    \/ \E s \in Slots, q \in LimitRequests, ip \in IPs : ArriveAmong(s, q, ip)
    \/ \E s \in Slots : LimitCount(s)
    \/ \E s \in Slots : LimitDecide(s)
    \/ \E s \in Slots : PassedLimiters(s)

SpecLimit == InitLimit /\ [][NextLimit]_vars

-----------------------------------------------------------------------------
(* SpecCreate: createDatabase calls in flight together, each one split at  *)
(* its awaited queries.  req.inflight holds the calls; db.passwords is the *)
(* password each PostgreSQL user was created with.  generatePassword gives *)
(* every call a password of its own, named after the caller.  No query     *)
(* fails here but for the conflicts PostgreSQL itself reports.             *)

Callers == {"c1", "c2"}

NewNames == {"db1", "db2"}

IdleCall == [pc |-> "idle", arg |-> "", exists |-> FALSE, status |-> 0,
             emitted |-> Undefined, password |-> ""]

\* generatePassword.
generatePassword(c) == "pw-" \o c

InitCreate ==
    /\ now = [sec |-> 0, late |-> FALSE]
    /\ redis = [token \in TokenStrings \cup {""} |-> None]
    /\ hits = [l \in Limiters |-> [ip \in IPs |-> NoWindow]]
    /\ db = [users |-> InitialDb.users, pgDatabases |-> {}, pgUsers |-> {},
             registry |-> {}, passwords |-> [u \in {} |-> ""]]
    /\ req = [pc |-> "many", inflight |-> [c \in Callers |-> IdleCall]]

\* res.status(status).json(body) of call c.
Answer(c, status, body) ==
    [req EXCEPT !.inflight[c].pc = "done", !.inflight[c].status = status,
                !.inflight[c].emitted = body]

\* The handler starts: the name is valid, the existence query runs.
CheckExists(c, name) ==
    /\ req.inflight[c].pc = "idle"
    /\ isValidDatabaseName(name)
    /\ req' = [req EXCEPT !.inflight[c] =
                  [IdleCall EXCEPT !.pc = "checked", !.arg = name,
                                   !.exists = name \in db.pgDatabases]]
    /\ UNCHANGED <<now, redis, hits, db>>

\* The existence query has answered: 409, or CREATE DATABASE, which
\* PostgreSQL rejects when the database exists by now.
CreateDatabaseStep(c) ==
    LET call == req.inflight[c]
    IN  /\ call.pc = "checked"
        /\ IF call.exists
           THEN /\ req' = Answer(c, 409, ErrorBody("Database already exists"))
                /\ db' = db
           ELSE IF call.arg \in db.pgDatabases
           THEN /\ req' = Answer(c, 500, ErrorBody("query failed"))
                /\ db' = db
           ELSE /\ req' = [req EXCEPT !.inflight[c].pc = "createdDatabase",
                                      !.inflight[c].password = generatePassword(c)]
                /\ db' = [db EXCEPT !.pgDatabases = @ \cup {call.arg}]
        /\ UNCHANGED <<now, redis, hits>>

\* CREATE USER, which PostgreSQL rejects when the role exists.
CreateUserStep(c) ==
    LET call == req.inflight[c]
        username == UserName(call.arg)
    IN  /\ call.pc = "createdDatabase"
        /\ IF username \in db.pgUsers
           THEN /\ req' = Answer(c, 500, ErrorBody("query failed"))
                /\ db' = db
           ELSE /\ req' = [req EXCEPT !.inflight[c].pc = "createdUser"]
                /\ db' = [db EXCEPT
                            !.pgUsers = @ \cup {username},
                            !.passwords = [u \in DOMAIN @ \cup {username} |->
                                              IF u = username THEN call.password
                                              ELSE @[u]]]
        /\ UNCHANGED <<now, redis, hits>>

\* GRANT ALL PRIVILEGES.
GrantStep(c) ==
    /\ req.inflight[c].pc = "createdUser"
    /\ req' = [req EXCEPT !.inflight[c].pc = "granted"]
    /\ UNCHANGED <<now, redis, hits, db>>

\* INSERT INTO database_registry, then the answer with the credentials.
RegisterStep(c) ==
    LET call == req.inflight[c]
    IN  /\ call.pc = "granted"
        /\ db' = [db EXCEPT !.registry = @ \cup {call.arg}]
        /\ req' = Answer(c, 200,
                     Obj([k \in {"success", "database", "message"} |->
                          CASE k = "success" -> Bool(TRUE)
                            [] k = "database" ->
                                 Obj([j \in {"name", "username", "password"} |->
                                      CASE j = "name" -> Str(call.arg)
                                        [] j = "username" -> Str(UserName(call.arg))
                                        [] OTHER -> Str(call.password)])
                            [] OTHER -> Str("Database created successfully")]))
        /\ UNCHANGED <<now, redis, hits>>

NextCreate ==
    \/ \E c \in Callers, name \in NewNames : CheckExists(c, name)
    \/ \E c \in Callers : CreateDatabaseStep(c)
    \/ \E c \in Callers : CreateUserStep(c)
    \/ \E c \in Callers : GrantStep(c)
    \/ \E c \in Callers : RegisterStep(c)

SpecCreate == InitCreate /\ [][NextCreate]_vars

-----------------------------------------------------------------------------
(* SpecJson: the overridden res.json called on its own, once on the value  *)
(* a handler emits and once more on what came out.  req.path is the path   *)
(* the override reads when it is called.                                   *)

JsonKeys == {"error", "success", "data", "message", "user", "token", "extra"}

UserValue == Obj([k \in {"id"} |-> Str("1")])

Credentials(keys) ==
    Obj([k \in keys |->
         CASE k = "user" -> UserValue
           [] k = "token" -> Str("abc")
           [] OTHER -> Str("x")])

\* The values a field of an emitted object may have; None is no field.
FieldValues(k) ==
    CASE k = "error" -> {None, Some(Str("not found")), Some(Str(""))}
      [] k = "success" -> {None, Some(Bool(TRUE)), Some(Bool(FALSE))}
      [] k = "data" -> {None, Some(Null), Some(Credentials({"user", "token"})),
                        Some(Credentials({"user", "token", "extra"}))}
      [] k = "message" -> {None, Some(Str("m"))}
      [] k = "user" -> {None, Some(UserValue), Some(Null)}
      [] k = "token" -> {None, Some(Str("abc"))}
      [] OTHER -> {None, Some(Str("x"))}

MkObj(o) == Obj([k \in {j \in JsonKeys : o[j] # None} |-> o[k][1]])

ObjectBodies ==
    {MkObj([error |-> e, success |-> s, data |-> d, message |-> m, user |-> u,
            token |-> t, extra |-> x]) :
        e \in FieldValues("error"), s \in FieldValues("success"),
        d \in FieldValues("data"), m \in FieldValues("message"),
        u \in FieldValues("user"), t \in FieldValues("token"),
        x \in FieldValues("extra")}

OtherBodies ==
    {Null, Undefined, Str("abc"), Str(""), Num(0), Num(1), Bool(FALSE), Arr(<<>>),
     Arr(<<Str("abc")>>)}

JsonPaths ==
    {<<"login">>, <<"api", "auth", "login">>, <<"api", "auth", "register">>,
     <<"auth", "me">>, <<"api", "users">>}

JsonFormats == {getLegacyFormat, V2Format, CurrentFormat}

InitJson ==
    /\ now = [sec |-> 0, late |-> FALSE]
    /\ redis = [token \in TokenStrings \cup {""} |-> None]
    /\ hits = [l \in Limiters |-> [ip \in IPs |-> NoWindow]]
    /\ db = InitialDb
    /\ \E b \in ObjectBodies \cup OtherBodies, p \in JsonPaths, has \in BOOLEAN,
          f \in JsonFormats :
          /\ ~has => f = CurrentFormat
          /\ req = [IdleReq EXCEPT !.pc = "json", !.method = "POST", !.path = p,
                                   !.hasFormat = has, !.clientFormat = f,
                                   !.emitted = b]

\* res.json(data) through the override: it throws, or hands a value on.
CallResJson(r, data) ==
    IF r.hasFormat /\ TransformThrows(data)
    THEN [r EXCEPT !.pc = "done", !.threw = TRUE]
    ELSE LET v == resJson(data, r.hasFormat, r.clientFormat, r.path)
         IN  [r EXCEPT !.out = Append(@, v), !.body = Serialize(v)]

\* The handler's value goes through the override.
JsonFirst ==
    /\ req.pc = "json"
    /\ Len(req.out) = 0
    /\ req' = CallResJson(req, req.emitted)
    /\ UNCHANGED <<now, redis, hits, db>>

\* What came out goes through the override once more, as the object in
\* memory or as the JSON that was sent.
JsonAgain ==
    /\ req.pc = "json"
    /\ Len(req.out) = 1
    /\ \E data \in {req.out[1], Serialize(req.out[1])} :
          req' = CallResJson(req, data)
    /\ UNCHANGED <<now, redis, hits, db>>

NextJson == JsonFirst \/ JsonAgain

SpecJson == InitJson /\ [][NextJson]_vars

-----------------------------------------------------------------------------
(* Claims about authentication and revocation.                             *)

\* The token of the request in flight, when its header has the Bearer shape.
HasBearer == req.headers.authorization.present
             /\ req.headers.authorization.val.prefix = "Bearer "

Presented == req.headers.authorization.val.rest

\* A token is valid at instant t: signed with the secret and not expired.
ValidAt(token, t) == Signature(token) = "good" /\ t.sec < Expiry(token)

\* authMiddleware called next() for the request in flight.
AuthNext == "authMiddleware" \in req.passed

\* authMiddleware has finished with the request in flight.
AuthFinished == AuthNext \/ (req.pc = "done" /\ req.by = "authMiddleware")

ErrorOf(r) == Get(r.body, "error")

\* The call of authMiddleware began after blacklistToken had written a
\* record for the valid token it presents.
RevokedBeforeCall ==
    /\ HasBearer
    /\ req.lookupAt # None
    /\ req.entryAtLookup # None
    /\ Signature(Presented) = "good"

Rejected401 == req.pc = "done" /\ req.status = 401 /\ ~AuthNext

\* C1 as stated: after blacklistToken(T) of a valid token T every later
\* authMiddleware call presenting T ends in 401 without next(), as 'Token
\* has been revoked' while T is unexpired, and once T's expiry has passed no
\* record for T is in the store.
C1_RevokedAsStated ==
    /\ RevokedBeforeCall => ~AuthNext
    /\ (RevokedBeforeCall /\ AuthFinished) => Rejected401
    /\ (RevokedBeforeCall /\ AuthFinished /\ ValidAt(Presented, req.lookupAt[1]))
          => ErrorOf(req) = Str("Token has been revoked")
    /\ \A token \in TokenStrings :
          (Signature(token) = "good" /\ NowSeconds(now) >= Expiry(token))
             => ~Live(redis[token], now)

\* C1 amended: after blacklistToken(T) of a valid token T every later
\* authMiddleware call presenting T ends in 401 without next(); it is 'Token
\* has been revoked' while T is unexpired provided the store lookup did not
\* fail; and no record for T is in the store from one second after T's
\* expiry on.
C1_Revoked ==
    /\ RevokedBeforeCall => ~AuthNext
    /\ (RevokedBeforeCall /\ AuthFinished) => Rejected401
    /\ (RevokedBeforeCall /\ AuthFinished /\ ValidAt(Presented, req.lookupAt[1])
        /\ req.lookup # "throw")
          => ErrorOf(req) = Str("Token has been revoked")
    /\ \A token \in TokenStrings :
          (Signature(token) = "good" /\ NowSeconds(now) >= Expiry(token) + 1)
             => ~Live(redis[token], now)

\* A revoked, still unexpired token was presented and answered 401 'Token
\* has been revoked'.
C1_Witness ==
    /\ RevokedBeforeCall /\ AuthFinished
    /\ ValidAt(Presented, req.lookupAt[1])
    /\ req.status = 401
    /\ ErrorOf(req) = Str("Token has been revoked")

\* What C2 requires for next(): the Bearer shape, no record in the store
\* when authMiddleware reads it, and a token valid when it is verified.
C2_Acceptable ==
    /\ HasBearer
    /\ req.lookupAt # None /\ ~Live(req.entryAtLookup, req.lookupAt[1])
    /\ req.resumeAt # None /\ ValidAt(Presented, req.resumeAt[1])

C2_Outcome(accepted) ==
    AuthFinished =>
        /\ AuthNext <=> accepted
        /\ AuthNext => req.user = Some(Claims(Presented))
        /\ ~AuthNext => (req.status = 401 /\ req.user = None)

\* C2 as stated: authMiddleware calls next() exactly when the header has
\* the Bearer shape, the token has no revocation record and verifyToken
\* accepts it, and then req.user is the token's claim; otherwise it answers
\* 401 with req.user unset.
C2_NextIffAsStated == C2_Outcome(C2_Acceptable)

\* C2 amended: authMiddleware calls next() exactly when the header has the
\* Bearer shape, the store lookup completes and finds no revocation record,
\* and verifyToken accepts the token; then req.user is the token's claim;
\* otherwise it answers 401 with req.user unset.
C2_NextIff == C2_Outcome(C2_Acceptable /\ req.lookup # "throw")

\* authMiddleware called next() and attached the claim of a valid token.
C2_Witness == AuthNext /\ req.user = Some(Claims("tAdmin"))

\* C3: a request presenting an expired or badly signed token is answered
\* 401 by authMiddleware without next(), with or without a revocation
\* record for the token.
C3_InvalidRejected ==
    (AuthFinished /\ HasBearer /\ req.lookupAt # None
     /\ ~ValidAt(Presented, req.lookupAt[1]))
        => Rejected401

\* A badly signed token that has a live revocation record was answered 401.
C3_Witness ==
    /\ AuthFinished /\ HasBearer /\ Presented = "tForged"
    /\ req.lookupAt # None /\ Live(req.entryAtLookup, req.lookupAt[1])
    /\ req.status = 401

\* An expired token without any revocation record was answered 401.
C3_WitnessExpired ==
    /\ AuthFinished /\ HasBearer /\ Presented = "tStale"
    /\ req.lookupAt # None /\ req.entryAtLookup = None
    /\ ~ValidAt(Presented, req.lookupAt[1])
    /\ req.status = 401

-----------------------------------------------------------------------------
(* Claims about the admin routes and the order of the gate (SpecGate).     *)

AdminHandlers ==
    {"createUser", "deleteUser", "getAllUsers", "getTables", "createDatabase",
     "deleteDatabase"}

\* The request in flight carries a token that is valid and unrevoked when
\* authMiddleware checks it, and whose role is ADMIN.
CarriesAdminToken ==
    /\ HasBearer
    /\ req.lookupAt # None /\ ~Live(req.entryAtLookup, req.lookupAt[1])
    /\ req.resumeAt # None /\ ValidAt(Presented, req.resumeAt[1])
    /\ Claims(Presented).role = "ADMIN"

OnAdminRoute(r) ==
    \E p \in {<<"api", "users">>, <<"api", "database">>, <<"api", "databases">>} :
        IsPrefix(p, r.path)

\* The persistent state changes only in the step of a handler that runs for
\* a request carrying a valid, unrevoked ADMIN token.
C5_WritesNeedAdmin ==
    (db' # db) =>
        (req.pc = "run" /\ CurrentEntry(req).mw \in AdminHandlers /\ CarriesAdminToken)

C5_NoHandler ==
    (OnAdminRoute(req) /\ req.handled # "") =>
        (req.handled \in AdminHandlers /\ CarriesAdminToken)

\* C5 as stated: on the user, database and database-management routes no
\* handler is invoked for a request without a valid, unrevoked ADMIN token;
\* such a request is answered 401 or 403 and the persistent state does not
\* change.
C5_AdminOnlyAsStated ==
    /\ [](C5_NoHandler)
    /\ []((OnAdminRoute(req) /\ req.pc = "done" /\ req.handled = "")
             => req.status \in {401, 403})
    /\ [][C5_WritesNeedAdmin]_vars

\* C5 amended: on the user, database and database-management routes no
\* handler is invoked for a request without a valid, unrevoked ADMIN token;
\* such a request is answered 401 or 403, or 429 when the client's general
\* quota is used up, and the persistent state does not change.
C5_AdminOnly ==
    /\ [](C5_NoHandler)
    /\ []((OnAdminRoute(req) /\ req.pc = "done" /\ req.handled = "")
             => req.status \in {401, 403, 429})
    /\ [][C5_WritesNeedAdmin]_vars

\* A request of a valid non-admin token to the create-database route was
\* answered 403 with the persistent state as it was at the start.
C5_Witness ==
    /\ req.pc = "done" /\ req.handled = "" /\ req.status = 403
    /\ HasBearer /\ Presented = "tUser"
    /\ req.path = <<"api", "databases", "create">>
    /\ db = InitialDb

\* The request in flight has passed the limiter in front of its router.
PastLimiter == req.pc \in {"auth", "done"} \/ (req.pc = "run" /\ req.idx > 1)

\* The step in which a limiter handles the request in flight counts it.
C8_Counts ==
    (req.pc = "run" /\ CurrentEntry(req).mw \in Limiters /\ req' # req /\ now' = now)
        => LET l == CurrentEntry(req).mw
               ip == ClientIp(req.client)
           IN  /\ hits'[l][ip].count = WindowAt(hits[l][ip], now).count + 1
               /\ req'.counted[l] = hits'[l][ip].count

C8_Sequence ==
    /\ req.status = 429 =>
          (req.pc = "done" /\ req.lookupAt = None /\ req.resumeAt = None
           /\ ~req.roleChecked /\ req.handled = "")
    /\ (req.status = 401) => (~req.roleChecked /\ req.handled = "")
    /\ (req.status = 403) => req.handled = ""
    /\ req.lookupAt # None => req.counted["generalLimiter"] > 0
    /\ req.roleChecked => AuthNext
    /\ req.handled # "" => req.roleChecked
    /\ PastLimiter => req.counted["generalLimiter"] > 0

\* C8: on a rate-limited, authenticated route the checks run in the order
\* rate limit, authentication, authorization and stop at the first failure:
\* a request answered 429 causes no store lookup, no verification and no
\* handler run, a request answered 401 reaches neither the role check nor
\* the handler, and the limiter counts the request whatever its token.
C8_GateOrder == [](C8_Sequence) /\ [][C8_Counts]_vars

\* A request with a badly signed token was counted by the limiter and then
\* answered 401 by authMiddleware.
C8_Witness ==
    /\ req.pc = "done" /\ req.status = 401 /\ req.by = "authMiddleware"
    /\ HasBearer /\ Presented = "tForged"
    /\ req.counted["generalLimiter"] > 0
    /\ hits["generalLimiter"]["ipA"].count = req.counted["generalLimiter"]

\* A request with a valid admin token was answered 429 by the limiter.
C8_Witness429 ==
    /\ req.status = 429 /\ HasBearer /\ Presented = "tAdmin"
    /\ ValidAt(Presented, now) /\ redis["tAdmin"] = None

GateMiddleware == Limiters \cup {"authMiddleware", "adminMiddleware"}

FailureBody(body) ==
    /\ body.t = "object"
    /\ Get(body, "success") = Bool(FALSE)
    /\ Get(body, "error").t = "string"

\* C9: every 401, 403 or 429 answered by a rate limiter, authMiddleware or
\* adminMiddleware is sent as a JSON object with success false and a string
\* error, under every client format descriptor.
C9_FailureBodies ==
    (req.pc = "done" /\ req.status \in {401, 403, 429} /\ req.by \in GateMiddleware)
        => FailureBody(req.body)

\* authMiddleware answered 401 under the current descriptor and the body
\* sent has success false.
C9_Witness ==
    /\ req.pc = "done" /\ req.status = 401 /\ req.by = "authMiddleware"
    /\ req.clientFormat.type = "current"
    /\ Get(req.body, "success") = Bool(FALSE)

-----------------------------------------------------------------------------
(* Claims about adminMiddleware and formatDetector (SpecUnit).             *)

AdminNext == "adminMiddleware" \in req.passed

\* C4: adminMiddleware calls next() only for an attached claim whose role
\* is ADMIN; an attached claim with another role is answered 403; no
\* attached claim is answered 401, not 403; neither failure calls next().
C4_AdminMiddleware ==
    req.roleChecked =>
        /\ AdminNext <=> (req.user # None /\ req.user[1].role = "ADMIN")
        /\ (req.user # None /\ req.user[1].role # "ADMIN")
              => (req.pc = "done" /\ req.status = 403)
        /\ req.user = None => (req.pc = "done" /\ req.status = 401)

\* adminMiddleware answered 401 to a request without an attached claim.
C4_Witness ==
    req.roleChecked /\ req.user = None /\ req.status = 401 /\ ~AdminNext

LegacyToken(ua) ==
    \E i \in DOMAIN ua : LowerPiece(ua[i]) \in {"48hauling", "devapi", "devdashboard"}

\* None of the classification rules applies to the headers h.
NoRuleMatches(h) ==
    /\ ~h.xApiVersion.present
    /\ ~h.appVersion.present
    /\ ~(h.userAgent.present /\ LegacyToken(h.userAgent.val))
    /\ ~h.authorization.present

\* C10: formatDetector attaches a descriptor whatever headers are present
\* or absent, its type is legacy, v2 or current, it is the current
\* descriptor when no classification rule matches, and next() is called.
C10_DescriptorAlways ==
    /\ req.hasFormat <=> "formatDetector" \in req.passed
    /\ req.hasFormat =>
          /\ req.clientFormat.type \in {"legacy", "v2", "current"}
          /\ NoRuleMatches(req.headers) =>
                (req.clientFormat.type = "current"
                 /\ ~req.clientFormat.wrapInData /\ ~req.clientFormat.includeSuccess)

\* formatDetector ran on a request with a non-legacy User-Agent and no
\* other header, and attached the current descriptor.
C10_Witness ==
    /\ req.hasFormat /\ "formatDetector" \in req.passed
    /\ NoRuleMatches(req.headers) /\ req.headers.userAgent.present
    /\ req.clientFormat = CurrentFormat

-----------------------------------------------------------------------------
(* Claims about the quotas (SpecRate).                                     *)

\* The quota class of a request: the limiter its route prefix selects.
ClassOf(r) == Chain(r.method, r.path)[1].mw

RealtimePaths == {<<"api", "hauling", "heartbeat">>, <<"api", "hauling", "location">>}

\* C6: among the requests one IP sends to the endpoints of one class within
\* one window, the N-th is not answered 429 and the (N+1)-th is, N being
\* the maximum of the class.
C6_Quota ==
    (req.pc = "done" /\ ClassOf(req) \in Limiters /\ req.counted[ClassOf(req)] > 0) =>
        LET n == req.counted[ClassOf(req)]
            N == Max(ClassOf(req))
        IN  /\ n <= N => req.status # 429
            /\ n = N + 1 => req.status = 429

\* C7: a request to the heartbeat or the location endpoint counts against
\* the realtime quota only: the general limiter neither counts nor rejects
\* it.
C7_OneClass ==
    (req.pc # "idle" /\ req.path \in RealtimePaths) =>
        /\ req.counted["generalLimiter"] = 0
        /\ ~(req.status = 429 /\ req.by = "generalLimiter")

-----------------------------------------------------------------------------
(* Claims about the classification rules (SpecUnit).                       *)

\* The descriptor the X-Api-Version value ver alone calls for.
ByVersionAlone(format, ver) ==
    CASE ver \in {"v1", "1"} -> format.type = "legacy"
      [] ver \in {"v2", "2"} ->
            format.type = "v2" /\ format.wrapInData /\ format.includeSuccess
      [] OTHER ->
            format.type = "current" /\ ~format.wrapInData /\ ~format.includeSuccess

\* C11 as stated: when the X-Api-Version header is present the descriptor
\* is the one its value calls for, whatever the other headers are.
C11_VersionAloneAsStated ==
    (req.hasFormat /\ req.headers.xApiVersion.present)
        => ByVersionAlone(req.clientFormat, req.headers.xApiVersion.val)

\* C11 amended: when the X-Api-Version header is present with a non-empty
\* value the descriptor is the one that value calls for, whatever the
\* App-Version, User-Agent and Authorization headers are.
C11_VersionAlone ==
    (req.hasFormat /\ req.headers.xApiVersion.present
     /\ req.headers.xApiVersion.val # "")
        => ByVersionAlone(req.clientFormat, req.headers.xApiVersion.val)

\* X-Api-Version 'v2' with a legacy User-Agent was classified v2.
C11_Witness ==
    /\ req.hasFormat
    /\ req.headers.xApiVersion = Hdr("v2")
    /\ req.headers.userAgent.present /\ LegacyToken(req.headers.userAgent.val)
    /\ req.clientFormat = V2Format

\* C12: with no X-Api-Version, no App-Version and no legacy token in the
\* User-Agent, a request that has an Authorization header is classified
\* legacy, the User-Agent being absent or present with another value.
C12_AuthorizationLegacy ==
    (/\ req.hasFormat
     /\ ~req.headers.xApiVersion.present
     /\ ~req.headers.appVersion.present
     /\ ~(req.headers.userAgent.present /\ LegacyToken(req.headers.userAgent.val))
     /\ req.headers.authorization.present)
        => (req.clientFormat.type = "legacy"
            /\ req.clientFormat.wrapInData /\ req.clientFormat.includeSuccess)

-----------------------------------------------------------------------------
(* Claims about the response transformer (SpecJson).                       *)

IsObject(x) == x.t = "object"

Has(x, k) == IsObject(x) /\ k \in DOMAIN x.o

\* The override has handed on the handler's value under a descriptor.
Transformed == req.pc = "json" /\ req.hasFormat /\ Len(req.out) >= 1

LoginPath(path) ==
    \E i \in 1..(Len(path) - 1) :
        path[i] = "auth" /\ path[i + 1] \in {"login", "register"}

\* C13: under every descriptor a handler body that contains an error field,
\* whatever its other fields, is sent as exactly {success: false, error,
\* message} with the body's error and message and no data envelope.
C13_ErrorShape ==
    (Transformed /\ Has(req.emitted, "error")) =>
        req.out[1] = Obj([k \in {"success", "error", "message"} |->
                          CASE k = "success" -> Bool(FALSE)
                            [] k = "error" -> Get(req.emitted, "error")
                            [] OTHER -> Get(req.emitted, "message")])

\* C14: under a legacy descriptor, on a path containing /auth/login or
\* /auth/register, a body with user and token at top level or one level
\* under data, and not already {success, data}-shaped, is sent as exactly
\* {success: true, data: {user, token}}.
C14_LoginShape ==
    LET b == req.emitted
        top == Has(b, "user") /\ Has(b, "token")
        nested == Has(Get(b, "data"), "user") /\ Has(Get(b, "data"), "token")
        from == IF top THEN b ELSE Get(b, "data")
    IN  (/\ Transformed
         /\ req.clientFormat.type = "legacy"
         /\ LoginPath(req.path)
         /\ ~Has(b, "error")
         /\ ~(Has(b, "success") /\ Has(b, "data"))
         /\ (top \/ nested))
            => req.out[1] = Wrap(Obj([k \in {"user", "token"} |-> Get(from, k)]))

\* C15: under the current descriptor a handler body without an error field
\* is sent identical to what the handler emitted.
C15_CurrentUnchanged ==
    (/\ Transformed
     /\ req.clientFormat.type = "current"
     /\ IsObject(req.emitted)
     /\ ~Has(req.emitted, "error"))
        => (req.out[1] = req.emitted /\ (Len(req.out) = 1 => req.body = req.emitted))

\* A body with user and token was sent unchanged on a login path under the
\* current descriptor.
C15_Witness ==
    /\ Transformed /\ req.clientFormat.type = "current"
    /\ req.path = <<"api", "auth", "login">>
    /\ req.emitted = Credentials({"user", "token"})
    /\ req.body = req.emitted

\* C16: under a legacy descriptor a body that has a success and a data
\* field and no error field is sent unchanged on every path, and a second
\* transformation gives the identical body again.
C16_LegacyShaped ==
    (/\ Transformed
     /\ req.clientFormat.type = "legacy"
     /\ Has(req.emitted, "success") /\ Has(req.emitted, "data")
     /\ ~Has(req.emitted, "error"))
        => (\A i \in 1..Len(req.out) : req.out[i] = req.emitted)
           /\ req.body = req.emitted

\* A body {success, data: null, ...} went through the legacy transformation
\* twice on a login path and came out as emitted.
C16_Witness ==
    /\ Transformed /\ req.clientFormat.type = "legacy"
    /\ Len(req.out) = 2
    /\ req.path = <<"api", "auth", "login">>
    /\ Has(req.emitted, "success") /\ Get(req.emitted, "data") = Null
    /\ ~Has(req.emitted, "error")
    /\ req.out[2] = req.emitted

\* C17: for every descriptor, path and object body the transformation is
\* idempotent: what comes out of a second transformation is what came out
\* of the first.
C17_Idempotent ==
    (req.pc = "json" /\ Len(req.out) = 2 /\ IsObject(req.emitted))
        => (Serialize(req.out[2]) = Serialize(req.out[1])
            /\ req.body = Serialize(req.out[1]))

\* A body that the v2 transformation wrapped was transformed again and not
\* wrapped a second time.
C17_Witness ==
    /\ req.pc = "json" /\ Len(req.out) = 2 /\ req.hasFormat
    /\ req.clientFormat.type = "v2"
    /\ IsObject(req.emitted) /\ ~Has(req.emitted, "error")
    /\ req.out[1] = Wrap(req.emitted)
    /\ req.out[2] = req.out[1]

\* C18: the override never throws, whatever value the handler passes and
\* whatever the descriptor, and without a descriptor the value is sent
\* unmodified.
C18_NeverThrows ==
    /\ ~req.threw
    /\ (req.pc = "json" /\ ~req.hasFormat /\ Len(req.out) >= 1)
          => req.out[1] = req.emitted

-----------------------------------------------------------------------------
(* Claims about the revocation record's lifetime (Spec).                   *)

\* The instant at which token expires.
ExpiryInstant(token) == [sec |-> Expiry(token), late |-> FALSE]

\* blacklistToken(token) called now writes a record exactly when the
\* token's expiry is still ahead, the record then expires at instant until(token),
\* and otherwise the store is left as it is.
WritesUntil(until(_)) ==
    \A token \in {k \in TokenStrings : jwtDecode(k) # None} :
        LET after == blacklistToken(redis, token, now)
            ahead == ~AtOrBefore(ExpiryInstant(token), now)
        IN  IF ahead
            THEN after = [redis EXCEPT ![token] = Some(until(token))]
            ELSE after = redis

ExactLifetime(token) == ExpiryInstant(token)

\* The remaining lifetime counted from the current whole second.
WholeSecondLifetime(token) ==
    [sec |-> now.sec + (Expiry(token) - now.sec), late |-> now.late]

\* C19 as stated: blacklistToken(T) writes a record iff T's expiry minus the
\* current time is positive, with a time-to-live of exactly that
\* difference; the store holds a record only for tokens whose expiry lies
\* in the future; on an expired token the store is unchanged.
C19_RecordLifetimeAsStated ==
    /\ WritesUntil(ExactLifetime)
    /\ \A token \in TokenStrings :
          Live(redis[token], now) => ~AtOrBefore(ExpiryInstant(token), now)

\* C19 amended: blacklistToken(T) writes a record iff T's expiry minus the
\* current time is positive, with a time-to-live of T's expiry minus the
\* current time truncated to whole seconds; the store holds a record only
\* for tokens whose expiry lies in the future or less than one second in
\* the past; on an expired token the store is unchanged.
C19_RecordLifetime ==
    /\ WritesUntil(WholeSecondLifetime)
    /\ \A token \in TokenStrings :
          Live(redis[token], now) =>
              ~AtOrBefore([sec |-> Expiry(token) + 1, late |-> FALSE], now)

\* A record written in the second half of a second is still in the store
\* at the token's expiry instant.
C19_Witness ==
    /\ redis["tAdmin"] = Some([sec |-> Expiry("tAdmin"), late |-> TRUE])
    /\ now = ExpiryInstant("tAdmin")
    /\ Live(redis["tAdmin"], now)
    /\ blacklistToken(redis, "tAdmin", now) = redis

-----------------------------------------------------------------------------
(* Claims about the rate-limit window (Spec).                              *)

\* Every counter in the store belongs to a window that has not run out, and
\* a key without a window has no count.
C20_Windows ==
    \A l \in Limiters, ip \in IPs :
        LET w == hits[l][ip]
        IN  /\ (w.count = 0) <=> (w.resetTime = None)
            /\ w.resetTime # None =>
                  (~AtOrBefore(w.resetTime[1], now)
                   /\ AtOrBefore(w.resetTime[1], After(now, WindowSec)))

\* The first request of a key without a window creates the counter with
\* count 1 and a window of full length, and is forwarded.
C20_Created ==
    (req.pc = "run" /\ CurrentEntry(req).mw \in Limiters /\ req' # req /\ now' = now
     /\ hits[CurrentEntry(req).mw][ClientIp(req.client)].count = 0)
        => LET l == CurrentEntry(req).mw
               ip == ClientIp(req.client)
           IN  /\ hits'[l][ip].count = 1
               /\ hits'[l][ip].resetTime = Some(After(now, WindowSec))
               /\ req'.counted[l] = 1
               /\ req'.status # 429 /\ l \in req'.passed

\* When the clock reaches a window's end the counter is gone, whatever it
\* had counted.
C20_Expires ==
    (now' # now) =>
        \A l \in Limiters, ip \in IPs :
            (hits[l][ip].resetTime # None /\ AtOrBefore(hits[l][ip].resetTime[1], now'))
                => (hits'[l][ip].count = 0 /\ hits'[l][ip].resetTime = None)

\* C20: the counter of an (IP, class) pair is created on the pair's first
\* request and reset when its window expires; an IP answered 429 in one
\* window is forwarded again on its first request after the window, with a
\* fresh count of 1.
C20_WindowReset == [](C20_Windows) /\ [][C20_Created /\ C20_Expires]_vars

\* An IP that had been answered 429 sent a request after its window ran
\* out; the request was counted as the first of a new window and forwarded.
C20_Witness ==
    /\ hits["generalLimiter"]["ipA"].limited
    /\ hits["generalLimiter"]["ipA"].count = 1
    /\ req.counted["generalLimiter"] = 1
    /\ "generalLimiter" \in req.passed
    /\ req.status # 429

-----------------------------------------------------------------------------
(* Claims about the order and the failure of the lookup (Spec).            *)

\* The token presented had a readable revocation record when authMiddleware
\* looked it up.
RecordAtLookup ==
    /\ HasBearer
    /\ req.lookupAt # None
    /\ Live(req.entryAtLookup, req.lookupAt[1])

RevokedOutcome ==
    /\ Rejected401
    /\ ErrorOf(req) = Str("Token has been revoked")
    /\ ~req.verified

\* verifyToken is called only after a lookup that found no record.
C21_VerifyAfterLookup == req.verified => (req.lookupAt # None /\ req.lookup = "no")

\* C21 as stated: the store is consulted before the token is verified, and
\* a token with a revocation record is answered 401 'Token has been
\* revoked', whatever its signature, without verifyToken being reached.
C21_StoreFirstAsStated ==
    /\ C21_VerifyAfterLookup
    /\ (AuthFinished /\ RecordAtLookup) => RevokedOutcome

\* C21 amended: the store is consulted before the token is verified, and a
\* token with a revocation record is answered 401 'Token has been revoked',
\* whatever its signature, without verifyToken being reached, provided the
\* lookup itself succeeds; when the lookup fails the answer is 401 all the
\* same and verifyToken is not reached either.
C21_StoreFirst ==
    /\ C21_VerifyAfterLookup
    /\ (AuthFinished /\ RecordAtLookup /\ req.lookup # "throw") => RevokedOutcome
    /\ (AuthFinished /\ RecordAtLookup) => (Rejected401 /\ ~req.verified)

\* A badly signed token with a revocation record was answered 'Token has
\* been revoked' and was not verified.
C21_Witness ==
    /\ AuthFinished /\ RecordAtLookup /\ Presented = "tForged"
    /\ RevokedOutcome

\* C26: when the revocation-store lookup fails, authMiddleware answers 401,
\* does not call next() and attaches no identity, also for a valid,
\* unexpired token.
C26_FailsClosed ==
    (AuthFinished /\ req.lookup = "throw") =>
        (Rejected401 /\ req.user = None /\ ~req.verified)

\* The lookup failed for a valid, unexpired, unrevoked token and the
\* request was answered 401.
C26_Witness ==
    /\ AuthFinished /\ req.lookup = "throw"
    /\ HasBearer /\ Presented = "tAdmin"
    /\ req.resumeAt # None /\ ValidAt(Presented, req.resumeAt[1])
    /\ req.entryAtLookup = None
    /\ req.status = 401 /\ req.user = None

-----------------------------------------------------------------------------
(* Claims about the App-Version and User-Agent rules (SpecUnit).           *)

IsLegacy(format) ==
    format.type = "legacy" /\ format.wrapInData /\ format.includeSuccess

\* The user agent names a legacy client, in the clients' own spelling.
NamesLegacyClient(ua) ==
    \E i \in DOMAIN ua : ua[i] \in {"48Hauling", "DevApi", "DevDashboard"}

C22_UserAgentRule ==
    (/\ req.hasFormat
     /\ ~req.headers.xApiVersion.present
     /\ ~req.headers.appVersion.present
     /\ req.headers.userAgent.present
     /\ NamesLegacyClient(req.headers.userAgent.val))
        => IsLegacy(req.clientFormat)

\* C22 as stated: without an X-Api-Version header, a request with an
\* App-Version header of any value is classified legacy whatever its
\* User-Agent and Authorization; otherwise a request whose User-Agent,
\* lower-cased, contains 48hauling, devapi or devdashboard is legacy.
C22_LegacyRulesAsStated ==
    /\ (req.hasFormat /\ ~req.headers.xApiVersion.present
        /\ req.headers.appVersion.present)
          => IsLegacy(req.clientFormat)
    /\ C22_UserAgentRule

\* C22 amended: without an X-Api-Version header, a request with an
\* App-Version header of any non-empty value is classified legacy whatever
\* its User-Agent and Authorization; otherwise a request whose User-Agent,
\* lower-cased, contains 48hauling, devapi or devdashboard is legacy.
C22_LegacyRules ==
    /\ (req.hasFormat /\ ~req.headers.xApiVersion.present
        /\ req.headers.appVersion.present /\ req.headers.appVersion.val # "")
          => IsLegacy(req.clientFormat)
    /\ C22_UserAgentRule

\* A request with only a User-Agent naming the dashboard in mixed case was
\* classified legacy.
C22_Witness ==
    /\ req.hasFormat
    /\ ~req.headers.xApiVersion.present /\ ~req.headers.appVersion.present
    /\ ~req.headers.authorization.present
    /\ req.headers.userAgent = Hdr(<<"DevDashboard">>)
    /\ IsLegacy(req.clientFormat)

-----------------------------------------------------------------------------
(* Claims about wrapping and pass-through (SpecJson).                      *)

\* C23: under the v2 descriptor a body without an error field is wrapped as
\* {success: true, data: <body>} exactly when it has no data field; a body
\* with a data field, whatever its value, is sent unchanged.
C23_V2WrapsWithoutData ==
    (/\ Transformed
     /\ req.clientFormat.type = "v2"
     /\ IsObject(req.emitted)
     /\ ~Has(req.emitted, "error"))
        => req.out[1] = IF Has(req.emitted, "data")
                        THEN req.emitted
                        ELSE Wrap(req.emitted)

\* The path contains /auth/me.
MePath(path) ==
    \E i \in 1..(Len(path) - 1) : path[i] = "auth" /\ path[i + 1] = "me"

\* The login rule reshapes the body: on a login path, user and token at top
\* level or one level under data.
LoginReshaped(b, path) ==
    /\ LoginPath(path)
    /\ \/ Truthy(Get(b, "user")) /\ Truthy(Get(b, "token"))
       \/ Truthy(Get(Get(b, "data"), "user")) /\ Truthy(Get(Get(b, "data"), "token"))

\* The legacy transformation reaches its last two rules.
LegacyRest ==
    /\ Transformed
    /\ req.clientFormat.type = "legacy"
    /\ ~Has(req.emitted, "error")
    /\ ~(Has(req.emitted, "success") /\ Has(req.emitted, "data"))
    /\ ~LoginReshaped(req.emitted, req.path)

C27_Envelope ==
    /\ (Transformed /\ req.clientFormat.includeSuccess /\ IsObject(req.out[1]))
          => Has(req.out[1], "success")
    /\ (Transformed /\ req.clientFormat.wrapInData /\ ~Has(req.emitted, "error"))
          => Has(req.out[1], "data")

\* C28: every top-level field of the handler's body is in the body sent,
\* with the same value, at top level or one level under data.
C28_NothingDiscarded ==
    (Transformed /\ IsObject(req.emitted)) =>
        \A k \in DOMAIN req.emitted.o :
            \/ Get(req.out[1], k) = req.emitted.o[k]
            \/ Get(Get(req.out[1], "data"), k) = req.emitted.o[k]

-----------------------------------------------------------------------------
(* Claims about the limiters under concurrent requests (SpecLimit).        *)

\* The requests of sender ip that limiter l has counted and not yet decided.
Pending(l, ip) ==
    Cardinality({s \in Slots :
        /\ req.inflight[s].pc = "counted"
        /\ CurrentEntry(req.inflight[s]).mw = l
        /\ SenderOf(req.inflight[s]) = ip})

\* A step that changes the count of (l, ip) is the increment of one request
\* of sender ip at limiter l, and it adds one.
OwnIncrement(l, ip) ==
    hits'[l][ip].count # hits[l][ip].count =>
        /\ hits'[l][ip].count = hits[l][ip].count + 1
        /\ \E s \in Slots :
              /\ req.inflight[s].pc = "run"
              /\ req'.inflight[s].pc = "counted"
              /\ CurrentEntry(req.inflight[s]).mw = l
              /\ SenderOf(req.inflight[s]) = ip

\* Within the window: no more than max forwarded, no update lost.
CountsExact ==
    \A l \in Limiters, ip \in IPs :
        /\ req.forwarded[l][ip] <= Max(l)
        /\ hits[l][ip].count = req.forwarded[l][ip] + req.rejected[l][ip] + Pending(l, ip)

\* C25: under every interleaving of concurrent requests the requests of one
\* IP that a limiter forwards within one window never exceed the limiter's
\* max, every request is counted exactly once by each limiter it meets, and
\* a request changes the count of no other IP and no other limiter.
C25_AtomicIndependent ==
    [](CountsExact) /\ [][\A l \in Limiters, ip \in IPs : OwnIncrement(l, ip)]_vars

\* Two logins of one sender were counted before either was decided, after
\* the other sender's login had been forwarded; the later one has been
\* answered 429 while the earlier one still waits.
C25_Witness ==
    /\ req.pc = "many"
    /\ \E s1, s2 \in Slots :
          /\ req.inflight[s1].pc = "counted"
          /\ req.inflight[s1].counted["authLimiter"] = 1
          /\ SenderOf(req.inflight[s1]) = "ipA"
          /\ req.inflight[s2].pc = "done"
          /\ req.inflight[s2].status = 429
          /\ req.inflight[s2].by = "authLimiter"
          /\ SenderOf(req.inflight[s2]) = "ipA"
    /\ req.forwarded["authLimiter"]["ipB"] = 1
    /\ req.rejected["authLimiter"]["ipA"] = 1
    /\ hits["authLimiter"]["ipA"].count = 2
    /\ hits["authLimiter"]["ipB"].count = 1

-----------------------------------------------------------------------------
(* Claims about database management (SpecGate, SpecCreate).                *)

\* C29: after every sequence of createDatabase and deleteDatabase calls, any
\* SQL step of which may have failed, a database exists exactly when
\* database_registry has a row for it, and its user exists exactly when the
\* database does.
C29_RegistryConsistent ==
    (req.pc \in {"idle", "done"}) =>
        \A name \in {"db1"} :
            /\ name \in db.pgDatabases <=> name \in db.registry
            /\ UserName(name) \in db.pgUsers <=> name \in db.pgDatabases

\* C30: of two createDatabase calls for the same new name, exactly one
\* succeeds and the other is answered 409 'Database already exists'; there
\* is one database, one user and one registry row, and the credentials the
\* successful call returned are the ones in force.
C30_OneWinner ==
    \A c1, c2 \in Callers :
        (/\ c1 # c2
         /\ req.inflight[c1].pc = "done" /\ req.inflight[c2].pc = "done"
         /\ req.inflight[c1].arg = req.inflight[c2].arg)
            => LET name == req.inflight[c1].arg
                   won == {c \in {c1, c2} : req.inflight[c].status = 200}
                   lost == {c1, c2} \ won
               IN  /\ Cardinality(won) = 1
                   /\ \A c \in lost :
                         /\ req.inflight[c].status = 409
                         /\ req.inflight[c].emitted = ErrorBody("Database already exists")
                   /\ name \in db.pgDatabases /\ name \in db.registry
                   /\ UserName(name) \in db.pgUsers
                   /\ \A c \in won :
                         db.passwords[UserName(name)] = req.inflight[c].password

====
